---- MODULE Spec2Model ----
(***************************************************************************)
(* Model of the title-matching core of migrate-to-spotify:                 *)
(*   - EmbeddingMatcher (src/utils.py): the process-wide model manager,    *)
(*     with its lazy `model` property executed step by step by threads;    *)
(*   - match_by_embeddings / verify_match (src/utils.py),                  *)
(*     SpotifyHandler.search_track_best_match (src/spotify_handler.py);    *)
(*   - the matching loops of PlaylistTransfer.match_tracks                 *)
(*     (src/transfer.py) and of fetch_tracks (src/ui/fetch.py);            *)
(*   - the text functions clean_youtube_title, parse_artist_title and      *)
(*     build_search_queries (src/utils.py) over titles made of tokens;     *)
(*   - create_playlist (src/ui/flows.py) and add_tracks_to_playlist        *)
(*     (src/spotify_handler.py);                                           *)
(*   - similarity_score (src/utils.py) over strings of characters;         *)
(*   - the fetch registry of one session and the steps of its              *)
(*     fetch_tracks runs around each yield (src/ui/fetch.py).              *)
(* Scores are tenths: 6 stands for 0.6.                                    *)
(* Two loops match a list of titles:                                       *)
(*   - PlaylistTransfer.match_tracks (src/transfer.py) calls               *)
(*     search_track_best_match(queries) without a title, so the handler    *)
(*     returns the first collected candidate unscored, and verify_match    *)
(*     with its default threshold 0.6 decides the tier;                    *)
(*   - fetch_tracks (src/ui/fetch.py) calls search_track_best_match(       *)
(*     queries, youtube_title, match_threshold); the handler of            *)
(*     src/spotify_handler.py declares only (queries, youtube_title), so   *)
(*     the call raises TypeError on the first title.                       *)
(***************************************************************************)
EXTENDS Integers, Sequences, FiniteSets, TLC

\* ------------------------------------------------------------------ bounds
MaxVideos == 2
\* a title given to the text functions is made of at most MaxParts phrases
MaxParts == 3
\* add_tracks_to_playlist is called with at most MaxTracks ids
MaxTracks == 250
\* a string given to similarity_score has at most MaxChars characters
MaxChars == 3
\* fetch_tracks is started at most MaxRuns times for the session
MaxRuns == 2

\* --------------------------------------------------------------- constants
\* threshold=0.6 passed by search_track_best_match to match_by_embeddings
HandlerThreshold == 6
\* threshold: float = 0.6, the default of verify_match
DefaultThreshold == 6
\* build_search_queries appends at most four queries
MaxQueries == 4
\* batch_size = 100 in add_tracks_to_playlist
BatchSize == 100

None == "None"
StringOnly == "string_only"
DefaultModel == "all-mpnet-base-v2"
ModelNames == {"all-mpnet-base-v2", "all-MiniLM-L6-v2"}
AllNames == ModelNames \cup {StringOnly}
Threads == {"ui", "job"}

\* score values a (title, candidate) pair can get, in tenths
LexValues == {0, 6, 8}
SemValues == {-2, 6, 8}
ThresholdValues == {5, 6, 9}

VARIABLES
    \* EmbeddingMatcher singleton
    modelName,      \* _model_name: None or a configured name
    model,          \* _model: None or the handle, named by the model it was loaded for
    hfCache,        \* model names present in the Hugging Face cache directory
    torchCache,     \* model names present in the legacy torch cache directory
    thr,            \* per thread: position inside encode / the model property
    loadFailed,     \* a load failed since the last set_model_name
    sawFail,        \* per thread: its encode call began after a failed load, no set_model_name since
    sentinelCall,   \* per thread: string_only configured during its whole encode call
    lastOp,         \* the last operation performed
    \* fetch_tracks run
    matchThreshold, \* settings['matching_threshold']
    session_id,     \* _get_session_id(request): the session hash of the request, or None
    nVideos,        \* len(videos)
    fpc,            \* position of the run
    idx,            \* loop index i (1-based)
    matches,        \* matches list
    cur,            \* data of the title being matched
    cancelEvent,    \* cancel_event.is_set()
    stale,          \* the run is no longer the latest of its session
    cancelSeen,     \* number of finalized results when the cancel event was set during matching
    payloads,       \* payloads yielded by the run
    excEscaped,     \* an exception escaped the matching of a title
    \* single calls of the text, scoring and playlist functions
    tx,             \* a call of clean_youtube_title / build_search_queries
    vm,             \* a call of verify_match
    pl,             \* the table, the state and the Spotify calls of create_playlist
    ab,             \* a call of add_tracks_to_playlist
    co,             \* the collection loop of one search_track_best_match call
    sim,            \* a call of similarity_score in both argument orders
    fr              \* the fetch registry of one session and the runs started for it

emVars == <<modelName, model, hfCache, torchCache, loadFailed>>
thVars == <<thr, sawFail, sentinelCall>>
fnVars == <<tx, vm, pl, ab, co, sim, fr>>
runVars == <<matchThreshold, session_id, nVideos, fpc, idx, matches, cur,
             cancelEvent, stale, cancelSeen, payloads, excEscaped>>
vars == <<modelName, model, hfCache, torchCache, thr, loadFailed,
          sawFail, sentinelCall, lastOp,
          matchThreshold, session_id, nVideos, fpc, idx, matches, cur,
          cancelEvent, stale, cancelSeen, payloads, excEscaped,
          tx, vm, pl, ab, co, sim, fr>>

\* ===================================================== EmbeddingMatcher
IdleThread == [pc |-> "idle", call |-> 0, name |-> None, ret |-> None]

\* model_name = self._model_name or 'all-mpnet-base-v2'
EffectiveName(n) == IF n = None THEN DefaultModel ELSE n

\* is_model_downloaded(model_name)
is_model_downloaded(n) ==
    IF n = StringOnly THEN TRUE
    ELSE n \in hfCache \/ n \in torchCache

\* EmbeddingMatcher.get_model_status: which of its four texts is returned
get_model_status ==
    LET model_name == EffectiveName(modelName) IN
    IF model_name = StringOnly THEN "string-only"
    ELSE IF model # None THEN "loaded"
    ELSE IF is_model_downloaded(model_name) THEN "downloaded-not-loaded"
    ELSE "not-downloaded"

Op(o, a, p, r) == [op |-> o, arg |-> a, pre |-> p, out |-> r]
StepOp == Op("step", None, None, None)

set_model_name_resetting(n) ==
    /\ modelName' = n
    /\ model' = None
    /\ loadFailed' = FALSE
    /\ sawFail' = [t \in Threads |-> FALSE]
    /\ sentinelCall' = [t \in Threads |-> sentinelCall[t] /\ n = StringOnly]
    /\ lastOp' = Op("set_model_name", n, model, None)
    /\ UNCHANGED <<hfCache, torchCache, thr, runVars, fnVars>>

\* EmbeddingMatcher.set_model_name
set_model_name(n) ==
    /\ modelName' = n
    /\ loadFailed' = FALSE
    /\ sawFail' = [t \in Threads |-> FALSE]
    /\ sentinelCall' = [t \in Threads |-> sentinelCall[t] /\ n = StringOnly]
    /\ lastOp' = Op("set_model_name", n, model, None)
    /\ UNCHANGED <<model, hfCache, torchCache, thr, runVars, fnVars>>

\* the result of a delete_model call: pre is the handle when the call began,
\* cleared tells whether the call itself cleared the handle (history)
DeleteOp(n, p, r, c) ==
    [op |-> "delete_model", arg |-> n, pre |-> p, out |-> r, cleared |-> c]

\* positions of a thread inside delete_model
DeletePcs == {"d127", "d141"}

\* delete_model 119-125, run by a thread: string_only returns (False, ...);
\* otherwise the handle is cleared when the name to delete is the configured one.
\* While the thread is inside the call, name is the model to delete, ret the
\* handle at entry, and call is 2 * len(deleted_locations) + (1 if cleared)
delete_model(t, n) ==
    /\ thr[t].pc = "idle"
    /\ IF n = StringOnly
       THEN /\ lastOp' = DeleteOp(n, model, "fail", FALSE)
            /\ UNCHANGED <<model, thr>>
       ELSE LET clears == model # None /\ modelName = n IN
            /\ model' = IF clears THEN None ELSE model
            /\ thr' = [thr EXCEPT ![t] = [pc |-> "d127", name |-> n, ret |-> model,
                                          call |-> IF clears THEN 1 ELSE 0]]
            /\ lastOp' = StepOp
    /\ UNCHANGED <<modelName, hfCache, torchCache, loadFailed, sawFail, sentinelCall,
                   runVars, fnVars>>

\* delete_model 127-139: remove the Hugging Face cache directory when it exists;
\* hfOk: shutil.rmtree does not raise (line 139 returns (False, ...) when it does)
delete_model_hf(t, hfOk) ==
    /\ thr[t].pc = "d127"
    /\ IF thr[t].name \in hfCache /\ ~hfOk
       THEN /\ thr' = [thr EXCEPT ![t] = IdleThread]
            /\ lastOp' = DeleteOp(thr[t].name, thr[t].ret, "fail", thr[t].call % 2 = 1)
            /\ UNCHANGED hfCache
       ELSE /\ hfCache' = hfCache \ {thr[t].name}
            /\ thr' = [thr EXCEPT ![t].pc = "d141",
                                  ![t].call = IF thr[t].name \in hfCache
                                              THEN thr[t].call + 2 ELSE thr[t].call]
            /\ lastOp' = StepOp
    /\ UNCHANGED <<modelName, model, torchCache, loadFailed, sawFail, sentinelCall,
                   runVars, fnVars>>

\* delete_model 141-156: remove the torch cache directory when it exists, then
\* return (True, ...) when a location was deleted and (False, "not found") otherwise;
\* torchOk: shutil.rmtree does not raise (line 150 returns (False, ...) when it does)
delete_model_torch(t, torchOk) ==
    /\ thr[t].pc = "d141"
    /\ thr' = [thr EXCEPT ![t] = IdleThread]
    /\ IF thr[t].name \in torchCache /\ ~torchOk
       THEN /\ lastOp' = DeleteOp(thr[t].name, thr[t].ret, "fail", thr[t].call % 2 = 1)
            /\ UNCHANGED torchCache
       ELSE /\ torchCache' = torchCache \ {thr[t].name}
            /\ lastOp' = DeleteOp(thr[t].name, thr[t].ret,
                                  IF thr[t].name \in torchCache \/ thr[t].call >= 2
                                  THEN "ok" ELSE "fail",
                                  thr[t].call % 2 = 1)
    /\ UNCHANGED <<modelName, model, hfCache, loadFailed, sawFail, sentinelCall,
                   runVars, fnVars>>

\* download_selected_model_with_progress (ui/flows.py 491-514), run by a
\* thread: nothing to do for string_only or a model already in a cache;
\* otherwise the thread starts constructing SentenceTransformer(name) (516).
\* While the thread is inside the constructor, name is the model
download_selected_model_with_progress(t, n) ==
    /\ thr[t].pc = "idle"
    /\ IF n = StringOnly \/ is_model_downloaded(n)
       THEN /\ lastOp' = Op("download", n, model,
                            IF n = StringOnly THEN "none-needed" ELSE "already")
            /\ UNCHANGED thr
       ELSE /\ thr' = [thr EXCEPT ![t] = [pc |-> "dl516", call |-> 0, name |-> n,
                                          ret |-> None]]
            /\ lastOp' = StepOp
    /\ UNCHANGED <<emVars, sawFail, sentinelCall, runVars, fnVars>>

\* download_selected_model_with_progress 516-527: the constructor returns, which
\* has put the model into the Hugging Face cache, and the object is dropped (the
\* manager's handle is not assigned); or it raises and the error text is returned
\*   ok: SentenceTransformer(name) does not raise
download_selected_model_return(t, ok) ==
    /\ thr[t].pc = "dl516"
    /\ hfCache' = IF ok THEN hfCache \cup {thr[t].name} ELSE hfCache
    /\ thr' = [thr EXCEPT ![t] = IdleThread]
    /\ lastOp' = Op("download", thr[t].name, model, IF ok THEN "ok" ELSE "fail")
    /\ UNCHANGED <<modelName, model, torchCache, loadFailed, sawFail, sentinelCall,
                   runVars, fnVars>>

\* a thread calls encode(text): line 67 evaluates self.model
encode_call(t) ==
    /\ thr[t].pc = "idle"
    /\ thr' = [thr EXCEPT ![t] = [pc |-> "g36", call |-> 1, name |-> None, ret |-> None]]
    /\ sawFail' = [sawFail EXCEPT ![t] = loadFailed]
    /\ sentinelCall' = [sentinelCall EXCEPT ![t] = (modelName = StringOnly)]
    /\ lastOp' = StepOp
    /\ UNCHANGED <<emVars, runVars, fnVars>>

\* model property, line 36: if self._model is None
model_check(t) ==
    /\ thr[t].pc = "g36"
    /\ thr' = [thr EXCEPT ![t].pc = IF model = None THEN "g38" ELSE "g63"]
    /\ lastOp' = StepOp
    /\ UNCHANGED <<emVars, sawFail, sentinelCall, runVars, fnVars>>

\* model property, lines 38-52: pick the name, return None for string_only,
\* otherwise start constructing SentenceTransformer(model_name)
model_pick(t) ==
    /\ thr[t].pc = "g38"
    /\ LET n == EffectiveName(modelName) IN
       IF n = StringOnly
       THEN thr' = [thr EXCEPT ![t].pc = "ret", ![t].ret = None]
       ELSE thr' = [thr EXCEPT ![t].pc = "loading", ![t].name = n]
    /\ lastOp' = StepOp
    /\ UNCHANGED <<emVars, sawFail, sentinelCall, runVars, fnVars>>

\* model property, line 52 succeeds: self._model = SentenceTransformer(model_name)
model_loaded(t) ==
    /\ thr[t].pc = "loading"
    /\ model' = thr[t].name
    /\ hfCache' = hfCache \cup {thr[t].name}
    /\ thr' = [thr EXCEPT ![t].pc = "g63", ![t].name = None]
    /\ lastOp' = StepOp
    /\ UNCHANGED <<modelName, torchCache, loadFailed, sawFail, sentinelCall, runVars, fnVars>>

\* model property, lines 59-62: the load raised, return None
model_load_failed(t) ==
    /\ thr[t].pc = "loading"
    /\ loadFailed' = TRUE
    /\ thr' = [thr EXCEPT ![t].pc = "ret", ![t].ret = None, ![t].name = None]
    /\ lastOp' = StepOp
    /\ UNCHANGED <<modelName, model, hfCache, torchCache, sawFail, sentinelCall, runVars, fnVars>>

\* model property, line 63: return self._model
model_return(t) ==
    /\ thr[t].pc = "g63"
    /\ thr' = [thr EXCEPT ![t].pc = "ret", ![t].ret = model]
    /\ lastOp' = StepOp
    /\ UNCHANGED <<emVars, sawFail, sentinelCall, runVars, fnVars>>

\* encode, lines 67-73, after self.model returned; encOk: model.encode does not raise
encode_continue(t, encOk) ==
    /\ thr[t].pc = "ret"
    /\ IF thr[t].call = 1
       THEN IF thr[t].ret = None
            THEN /\ thr' = [thr EXCEPT ![t] = IdleThread]
                 /\ lastOp' = Op("encode", t, None, None)
            ELSE /\ thr' = [thr EXCEPT ![t] = [pc |-> "g36", call |-> 2, name |-> None, ret |-> None]]
                 /\ lastOp' = StepOp
       ELSE /\ thr' = [thr EXCEPT ![t] = IdleThread]
            /\ lastOp' = Op("encode", t, None,
                            IF thr[t].ret # None /\ encOk THEN thr[t].ret ELSE None)
    /\ UNCHANGED <<emVars, sawFail, sentinelCall, runVars, fnVars>>

\* encode run by one thread without interleaving: result and manager state after it
\* loadOk: SentenceTransformer(...) does not raise; encOk: model.encode does not raise
EncodeSeq(mn, m, loadOk, encOk) ==
    LET n == EffectiveName(mn)
        tried == m = None /\ n # StringOnly
        m1 == IF tried /\ loadOk THEN n ELSE m
    IN [res |-> IF m1 # None /\ encOk THEN m1 ELSE None,
        model |-> m1,
        loaded |-> tried /\ loadOk,
        failed |-> tried /\ ~loadOk]


\* ============================================== candidate collection
\* track ids of the catalog entries the provider returns for the titles of the run
CandIds == {1, 2}
NoTrack == 0

\* result lists the search provider can return for one query
ProviderResults == UNION {[1..k -> CandIds] : k \in 0..Cardinality(CandIds)}

Range(f) == {f[i] : i \in DOMAIN f}

AppendUnseen_all(all, tracks) == all \o tracks

\* spotify_handler.py 104-107: add unique tracks only (dedup by track id)
RECURSIVE AppendUnseen(_, _)
AppendUnseen(all, tracks) ==
    IF tracks = <<>> THEN all
    ELSE AppendUnseen(IF Head(tracks) \in Range(all) THEN all
                      ELSE Append(all, Head(tracks)),
                      Tail(tracks))

search_track_partial(items, raises) == items

\* SpotifyHandler.search_track: the provider's items, or [] when the call raises
search_track(items, raises) == IF raises THEN <<>> ELSE items

\* search_track_best_match 100-110, one iteration of `for query in queries`:
\* the provider call and the merge of its results
\* (history: co.log is the list of the result lists the queries returned)
collect_query ==
    /\ co.pc = "collect"
    /\ co.qi <= co.nq
    /\ \E items \in ProviderResults, raises \in BOOLEAN :
          LET tracks == search_track(items, raises) IN
          co' = [co EXCEPT !.all = AppendUnseen(co.all, tracks),
                           !.qi = co.qi + 1,
                           !.log = Append(co.log, tracks)]
    /\ UNCHANGED <<emVars, thVars, lastOp, runVars, tx, vm, pl, ab, sim, fr>>

\* search_track_best_match 112: the loop is over, every query has been issued
collect_done ==
    /\ co.pc = "collect"
    /\ co.qi > co.nq
    /\ co' = [co EXCEPT !.pc = "done"]
    /\ UNCHANGED <<emVars, thVars, lastOp, runVars, tx, vm, pl, ab, sim, fr>>

\* ========================================================== scoring
\* match_by_embeddings 231-239: first candidate with the strictly highest score above 0.0
RECURSIVE BestLexical(_, _, _, _)
BestLexical(tracks, lex, bestTrack, bestScore) ==
    IF tracks = <<>> THEN [track |-> bestTrack, score |-> bestScore]
    ELSE IF lex[Head(tracks)] > bestScore
         THEN BestLexical(Tail(tracks), lex, Head(tracks), lex[Head(tracks)])
         ELSE BestLexical(Tail(tracks), lex, bestTrack, bestScore)

\* match_by_embeddings 256-257: similarities.argmax(), the first index of the maximum
ArgMax(tracks, sem) ==
    CHOOSE i \in 1..Len(tracks) :
        /\ \A j \in 1..Len(tracks) : sem[tracks[j]] <= sem[tracks[i]]
        /\ \A j \in 1..(i - 1) : sem[tracks[j]] < sem[tracks[i]]

\* format_spotify_track_text(track) raises KeyError when the record has no
\* 'name' or no 'artists' key; bad: the ids of such records
FormatRaises(track, bad) == track \in bad

NoMatch == [kind |-> "none", track |-> NoTrack]
Raised == [kind |-> "raise", track |-> NoTrack]
Found(t) == [kind |-> "track", track |-> t]

\* utils.match_by_embeddings(youtube_title, spotify_tracks, threshold)
\*   ytVec:   encode(yt_clean) returned a vector
\*   batchOk: model.encode(spotify_texts) did not raise
\*   bad:     records format_spotify_track_text (lines 235, 246) raises on
match_by_embeddings(tracks, lex, sem, threshold, ytVec, batchOk, bad) ==
    IF tracks = <<>> THEN NoMatch
    ELSE IF \E i \in DOMAIN tracks : FormatRaises(tracks[i], bad) THEN Raised
    ELSE IF ~ytVec
    THEN LET b == BestLexical(tracks, lex, NoTrack, 0) IN
         IF b.score >= threshold THEN Found(b.track) ELSE NoMatch
    ELSE IF ~batchOk THEN Raised
    ELSE LET i == ArgMax(tracks, sem) IN
         IF sem[tracks[i]] >= threshold THEN Found(tracks[i]) ELSE NoMatch

search_track_best_match_scored(all, titleEmpty, lex, sem, ytVec, batchOk, bad) ==
    IF all = <<>> THEN NoMatch
    ELSE LET r == match_by_embeddings(all, lex, sem, HandlerThreshold, ytVec, batchOk, bad) IN
         IF r.kind = "track" /\ r.track = NoTrack THEN NoMatch ELSE r

\* SpotifyHandler.search_track_best_match, lines 112-134 (after the collection loop)
search_track_best_match(all, titleEmpty, lex, sem, ytVec, batchOk, bad) ==
    IF all = <<>> THEN NoMatch
    ELSE IF titleEmpty THEN Found(all[1])
    ELSE LET r == match_by_embeddings(all, lex, sem, HandlerThreshold, ytVec, batchOk, bad) IN
         IF r.kind = "track" /\ r.track = NoTrack THEN NoMatch ELSE r

verify_match_below(l, s, bothVec, threshold) ==
    IF bothVec THEN s <= threshold ELSE l <= threshold

\* utils.verify_match: l, s are the lexical and cosine scores of the pair;
\* bothVec: encode returned a vector for the title and for the track text
verify_match(l, s, bothVec, threshold) ==
    IF bothVec THEN s >= threshold ELSE l >= threshold

\* match_tracks 119-129 (and fetch_tracks 236-243): the status recorded for a title
Status(r, verified) ==
    IF r.kind = "track"
    THEN IF verified THEN "matched" ELSE "low_confidence"
    ELSE "not_found"


\* ===================================================== matching loops
Lowest(S) == CHOOSE x \in S : \A y \in S : x <= y

\* score tables of the candidates of one title (the others keep the lowest value)
ScoreTables(all, values) ==
    {f \in [CandIds -> values] : \A c \in CandIds \ Range(all) : f[c] = Lowest(values)}

NoCur == [nq |-> 0, qi |-> 0, failedAt |-> 0, all |-> <<>>, bad |-> {},
          lex |-> [c \in CandIds |-> Lowest(LexValues)],
          sem |-> [c \in CandIds |-> Lowest(SemValues)],
          r |-> NoMatch, ytVec |-> FALSE, batchOk |-> FALSE, bothVec |-> FALSE]

\* `if is_stale(): return` in front of a yield: the position after the check,
\* the yield being the next step of the run
AfterStaleCheck(pending) == IF stale THEN "done" ELSE pending

\* fetch_tracks 262-290: the rows shown in the table
TableRows(ms, include_low_confidence) ==
    LET Shown(m) == m.status = "matched" \/
                    (m.status = "low_confidence" /\ include_low_confidence)
    IN SelectSeq(ms, Shown)

\* manager state after the encode calls made by one step
AfterEncodes(m, loaded, failed) ==
    /\ model' = m
    /\ hfCache' = IF loaded THEN hfCache \cup {m} ELSE hfCache
    /\ loadFailed' = (loadFailed \/ failed)
    /\ UNCHANGED <<modelName, torchCache>>

\* ------------------------------------ PlaylistTransfer.match_tracks
\* fpc: "loop" (in front of the next video), "search" (inside the collection
\* loop of search_track_best_match), "verify" (in front of verify_match),
\* "done" (match_tracks returned), "raised" (an exception left match_tracks)

\* match_tracks 109-114: the next video of the loop and its queries
\*   k: len(build_search_queries(video_title))
match_tracks ==
    /\ fpc = "loop"
    /\ idx <= nVideos
    /\ \E k \in 1..MaxQueries :
          cur' = [NoCur EXCEPT !.nq = k, !.qi = 1]
    /\ fpc' = "search"
    /\ UNCHANGED <<fnVars, emVars, thVars, lastOp, matchThreshold, session_id, nVideos, idx,
                   matches, cancelEvent, stale, cancelSeen, payloads, excEscaped>>

\* search_track_best_match 100-110: one query of the collection loop
\* (history: failedAt is the index of the last query whose provider call raised)
match_tracks_search_query ==
    /\ fpc = "search"
    /\ cur.qi <= cur.nq
    /\ \E items \in ProviderResults, raises \in BOOLEAN :
          cur' = [cur EXCEPT !.all = AppendUnseen(cur.all, search_track(items, raises)),
                             !.qi = cur.qi + 1,
                             !.failedAt = IF raises THEN cur.qi ELSE cur.failedAt]
    /\ UNCHANGED <<fnVars, emVars, thVars, lastOp, matchThreshold, session_id, nVideos, fpc, idx,
                   matches, cancelEvent, stale, cancelSeen, payloads, excEscaped>>

\* match_tracks 117, 119, 127-129: search_track_best_match(queries) is called
\* without a title, so after the collection loop it returns None or the first
\* candidate (spotify_handler.py 112-119); None is recorded as not_found
\*   bad: the collected records that have no 'name' or no 'artists' key
match_tracks_best_match ==
    /\ fpc = "search"
    /\ cur.qi > cur.nq
    /\ \E bad \in SUBSET Range(cur.all) :
          LET r == search_track_best_match(cur.all, TRUE, cur.lex, cur.sem,
                                           FALSE, FALSE, bad) IN
          /\ cur' = [cur EXCEPT !.r = r, !.bad = bad,
                                !.nq = 0, !.qi = 0, !.failedAt = 0]
          /\ IF r.kind = "track"
             THEN /\ fpc' = "verify"
                  /\ UNCHANGED <<matches, idx>>
             ELSE /\ matches' = Append(matches, [video |-> idx, track |-> NoTrack,
                                                 status |-> Status(r, FALSE)])
                  /\ idx' = idx + 1
                  /\ fpc' = "loop"
    /\ UNCHANGED <<fnVars, emVars, thVars, lastOp, matchThreshold, session_id, nVideos,
                   cancelEvent, stale, cancelSeen, payloads, excEscaped>>

\* match_tracks 121: verify_match line 411, format_spotify_track_text, raises
\* KeyError on a malformed record; match_tracks has no handler, so the
\* exception leaves it and no result list is returned
match_tracks_verify_raises ==
    /\ fpc = "verify"
    /\ FormatRaises(cur.r.track, cur.bad)
    /\ excEscaped' = TRUE
    /\ fpc' = "raised"
    /\ UNCHANGED <<fnVars, emVars, thVars, lastOp, matchThreshold, session_id, nVideos, idx,
                   matches, cur, cancelEvent, stale, cancelSeen, payloads>>

\* match_tracks 121-126: verify_match(video_title, spotify_track) with its
\* default threshold; its two encode calls go through the manager
\*   lex, sem: the scores, in the mode verify_match runs in, of the title
\*   against each collected candidate (verify_match computes the one of the
\*   candidate it is given)
match_tracks_verify ==
    /\ fpc = "verify"
    /\ ~FormatRaises(cur.r.track, cur.bad)
    /\ \E loadOk1 \in BOOLEAN, encOk1 \in BOOLEAN, loadOk2 \in BOOLEAN, encOk2 \in BOOLEAN :
          LET e1 == EncodeSeq(modelName, model, loadOk1, encOk1)
              second == e1.res # None
              e2 == IF second THEN EncodeSeq(modelName, e1.model, loadOk2, encOk2)
                    ELSE [res |-> None, model |-> e1.model, loaded |-> FALSE, failed |-> FALSE]
              bothVec == e1.res # None /\ e2.res # None
              t == cur.r.track
          IN
          /\ second \/ (loadOk2 /\ encOk2)
          /\ AfterEncodes(e2.model, e1.loaded \/ e2.loaded, e1.failed \/ e2.failed)
          /\ \E lex \in IF bothVec THEN {cur.lex} ELSE ScoreTables(cur.all, LexValues),
                sem \in IF bothVec THEN ScoreTables(cur.all, SemValues) ELSE {cur.sem} :
                LET v == verify_match(lex[t], sem[t], bothVec, DefaultThreshold) IN
                /\ cur' = [cur EXCEPT !.bothVec = bothVec, !.lex = lex, !.sem = sem]
                /\ matches' = Append(matches, [video |-> idx, track |-> t,
                                               status |-> Status(cur.r, v)])
    /\ idx' = idx + 1
    /\ fpc' = "loop"
    /\ UNCHANGED <<fnVars, thVars, lastOp, matchThreshold, session_id, nVideos,
                   cancelEvent, stale, cancelSeen, payloads, excEscaped>>

\* match_tracks 131-144: the loop is over, the summary is logged and the list
\* of matches is returned
match_tracks_return ==
    /\ fpc = "loop"
    /\ idx > nVideos
    /\ fpc' = "done"
    /\ UNCHANGED <<fnVars, emVars, thVars, lastOp, matchThreshold, session_id, nVideos, idx,
                   matches, cur, cancelEvent, stale, cancelSeen, payloads, excEscaped>>

\* ----------------------------------------- utils.match_by_embeddings
\* match_by_embeddings(youtube_title, spotify_tracks, threshold) called on the
\* candidates cur.all, of which cur.bad are malformed, with threshold
\* matchThreshold; an exception of the call is recorded in excEscaped
\* (only the score table of the mode the call runs in is computed)
match_by_embeddings_call ==
    /\ fpc = "call"
    /\ \E loadOk \in BOOLEAN, encOk \in BOOLEAN, bOk \in BOOLEAN :
          LET called == cur.all # <<>>
              e == IF called THEN EncodeSeq(modelName, model, loadOk, encOk)
                   ELSE [res |-> None, model |-> model, loaded |-> FALSE, failed |-> FALSE]
              ytVec == e.res # None
              scored == called /\ cur.bad = {}
              batchOk == ytVec /\ bOk /\ scored
          IN
          /\ called \/ (loadOk /\ encOk)
          /\ (ytVec /\ scored) \/ bOk
          /\ AfterEncodes(e.model, e.loaded, e.failed)
          /\ \E lex \in IF scored /\ ~ytVec THEN ScoreTables(cur.all, LexValues) ELSE {cur.lex},
                sem \in IF scored /\ batchOk THEN ScoreTables(cur.all, SemValues) ELSE {cur.sem} :
                LET r == match_by_embeddings(cur.all, lex, sem, matchThreshold,
                                             ytVec, batchOk, cur.bad) IN
                /\ cur' = [cur EXCEPT !.lex = lex, !.sem = sem, !.r = r,
                                      !.ytVec = ytVec, !.batchOk = batchOk]
                /\ excEscaped' = (r.kind = "raise")
    /\ fpc' = "done"
    /\ UNCHANGED <<fnVars, thVars, lastOp, matchThreshold, session_id, nVideos, idx,
                   matches, cancelEvent, stale, cancelSeen, payloads>>

\* ------------------------------------------- fetch_tracks (ui/fetch.py)
\* fpc: "start", "yield_<payload>" (in front of a yield), "poll<line>" (in
\* front of an `if is_cancelled():`), "stale_<payload>" (in front of the
\* `if is_stale():` that guards a yield), "url" / "settings" / "transfer" /
\* "playlist" / "videos" (in front of a validation), "loop", "call230" (in
\* front of the call of search_track_best_match), "except", "return", "done"

\* fetch_tracks 93-107: the first stale check, in front of the reset payload
fetch_start ==
    /\ fpc = "start"
    /\ fpc' = AfterStaleCheck("yield_reset")
    /\ UNCHANGED <<fnVars, emVars, thVars, lastOp, matchThreshold, session_id, nVideos, idx,
                   matches, cur, cancelEvent, stale, cancelSeen, payloads, excEscaped>>

\* fetch_tracks 109 and 157: the reset payload and the 'Fetching playlist'
\* payload, after which the generator goes on with the poll of 111 / 164
fetch_yield ==
    /\ fpc \in {"yield_reset", "yield_fetching"}
    /\ payloads' = Append(payloads, [kind |-> "progress", rows |-> <<>>])
    /\ fpc' = IF fpc = "yield_reset" THEN "poll111" ELSE "poll164"
    /\ UNCHANGED <<fnVars, emVars, thVars, lastOp, matchThreshold, session_id, nVideos, idx,
                   matches, cur, cancelEvent, stale, cancelSeen, excEscaped>>

\* fetch_tracks 111, 126, 141, 164, 186: `if is_cancelled():` of the prelude
fetch_is_cancelled ==
    /\ fpc \in {"poll111", "poll126", "poll141", "poll164", "poll186"}
    /\ fpc' = IF cancelEvent THEN "stale_cancelled"
              ELSE CASE fpc = "poll111" -> "url"
                     [] fpc = "poll126" -> "settings"
                     [] fpc = "poll141" -> "transfer"
                     [] fpc = "poll164" -> "playlist"
                     [] fpc = "poll186" -> "videos"
    /\ UNCHANGED <<fnVars, emVars, thVars, lastOp, matchThreshold, session_id, nVideos, idx,
                   matches, cur, cancelEvent, stale, cancelSeen, payloads, excEscaped>>

\* fetch_tracks 117 (the URL is not empty), 131-132 (the settings exist),
\* 147-148 (initialize_transfer returns no error), 170-175
\* (fetch_youtube_playlist does not raise), 192 (the playlist has a video)
\*   ok: the validation passes
fetch_check ==
    /\ fpc \in {"url", "settings", "transfer", "playlist", "videos"}
    /\ \E ok \in BOOLEAN :
          fpc' = IF ~ok THEN "stale_error"
                 ELSE CASE fpc = "url" -> "poll126"
                        [] fpc = "settings" -> "poll141"
                        [] fpc = "transfer" -> "stale_fetching"
                        [] fpc = "playlist" -> "poll186"
                        [] fpc = "videos" -> "loop"
    /\ UNCHANGED <<fnVars, emVars, thVars, lastOp, matchThreshold, session_id, nVideos, idx,
                   matches, cur, cancelEvent, stale, cancelSeen, payloads, excEscaped>>

\* fetch_tracks `if is_stale(): return` in front of a payload of the prelude:
\* the cancelled payload (112, 127, 142, 165, 187), an error payload (118,
\* 133, 149, 177, 193) and the 'Fetching playlist' payload (155)
fetch_is_stale ==
    /\ fpc \in {"stale_cancelled", "stale_error", "stale_fetching"}
    /\ fpc' = AfterStaleCheck(CASE fpc = "stale_cancelled" -> "yield_cancelled"
                                [] fpc = "stale_error" -> "yield_error"
                                [] fpc = "stale_fetching" -> "yield_fetching")
    /\ UNCHANGED <<fnVars, emVars, thVars, lastOp, matchThreshold, session_id, nVideos, idx,
                   matches, cur, cancelEvent, stale, cancelSeen, payloads, excEscaped>>

\* fetch_tracks 206-218: poll the cancel event at the top of an iteration, then
\* the stale check in front of the cancelled payload (208) or of the progress
\* payload of the title (218)
fetch_loop_top ==
    /\ fpc = "loop"
    /\ idx <= nVideos
    /\ fpc' = AfterStaleCheck(IF cancelEvent THEN "yield_cancelled" ELSE "yield_progress")
    /\ UNCHANGED <<fnVars, emVars, thVars, lastOp, matchThreshold, session_id, nVideos, idx,
                   matches, cur, cancelEvent, stale, cancelSeen, payloads, excEscaped>>

\* fetch_tracks 220-224: yield the progress payload of the title
fetch_yield_progress ==
    /\ fpc = "yield_progress"
    /\ payloads' = Append(payloads, [kind |-> "progress", rows |-> <<>>])
    /\ fpc' = "call230"
    /\ UNCHANGED <<fnVars, emVars, thVars, lastOp, matchThreshold, session_id, nVideos, idx,
                   matches, cur, cancelEvent, stale, cancelSeen, excEscaped>>

\* fetch_tracks 227-234: the generator, resumed, builds the queries and calls
\* transfer.spotify.search_track_best_match(queries=..., youtube_title=...,
\* match_threshold=...). SpotifyHandler's method has no match_threshold
\* parameter: the call raises TypeError before any provider call, and control
\* passes to the handler of line 328 (history: excEscaped records the raise).
fetch_search_track_best_match ==
    /\ fpc = "call230"
    /\ excEscaped' = TRUE
    /\ fpc' = "except"
    /\ UNCHANGED <<fnVars, emVars, thVars, lastOp, matchThreshold, session_id, nVideos, idx,
                   matches, cur, cancelEvent, stale, cancelSeen, payloads>>

fetch_except_unannounced ==
    /\ fpc = "except"
    /\ fpc' = "done"
    /\ UNCHANGED <<fnVars, emVars, thVars, lastOp, matchThreshold, session_id, nVideos, idx,
                   matches, cur, cancelEvent, stale, cancelSeen, payloads, excEscaped>>

\* fetch_tracks 328-329: the handler of an exception raised in the body tests
\* _is_latest_fetch_run in front of its error payload
fetch_except ==
    /\ fpc = "except"
    /\ fpc' = AfterStaleCheck("yield_error")
    /\ UNCHANGED <<fnVars, emVars, thVars, lastOp, matchThreshold, session_id, nVideos, idx,
                   matches, cur, cancelEvent, stale, cancelSeen, payloads, excEscaped>>

\* the yields the generator returns after, once it is resumed:
\* cancelled_payload() (114, 129, 144, 167, 189, 210) and fetch_error_payload
\* (120, 135, 151, 179, 195, 330)
fetch_yield_last ==
    /\ fpc \in {"yield_cancelled", "yield_error"}
    /\ payloads' = Append(payloads,
           IF fpc = "yield_cancelled" THEN [kind |-> "cancelled", rows |-> <<>>]
           ELSE [kind |-> "error", rows |-> <<>>])
    /\ fpc' = "return"
    /\ UNCHANGED <<fnVars, emVars, thVars, lastOp, matchThreshold, session_id, nVideos, idx,
                   matches, cur, cancelEvent, stale, cancelSeen, excEscaped>>

\* the generator, resumed after its last yield, returns (115, 122, 130, 138,
\* 145, 153, 168, 184, 190, 196, 211, 331)
fetch_return ==
    /\ fpc = "return"
    /\ fpc' = "done"
    /\ UNCHANGED <<fnVars, emVars, thVars, lastOp, matchThreshold, session_id, nVideos, idx,
                   matches, cur, cancelEvent, stale, cancelSeen, payloads, excEscaped>>

\* history: the number of finalized results when the event is first set while
\* titles remain to be matched or finalized and the last payload is not out yet
NoteCancel ==
    cancelSeen' = IF cancelSeen = -1 /\ idx <= nVideos /\ fpc # "return"
                  THEN Len(matches) ELSE cancelSeen

\* prepare_fetch 70-79 -> _cancel_current_fetch 29-36: without a session id
\* nothing is done; with one, the session's registered cancel event is set
prepare_fetch ==
    /\ session_id # None
    /\ fpc \notin {"done", "raised"}
    /\ ~cancelEvent
    /\ cancelEvent' = TRUE
    /\ NoteCancel
    /\ UNCHANGED <<fnVars, emVars, thVars, lastOp, matchThreshold, session_id, nVideos, fpc, idx,
                   matches, cur, stale, payloads, excEscaped>>

\* _start_fetch_run 39-49 of a newer run for the same request: it sets the
\* event registered under the session id (None included) and takes the next
\* run id; _is_latest_fetch_run 52-57 then answers False for this run unless
\* the session id is None
start_fetch_run ==
    /\ fpc # "done"
    /\ ~stale
    /\ ~cancelEvent \/ session_id # None
    /\ cancelEvent' = TRUE
    /\ stale' = (session_id # None)
    /\ NoteCancel
    /\ UNCHANGED <<fnVars, emVars, thVars, lastOp, matchThreshold, session_id, nVideos, fpc, idx,
                   matches, cur, payloads, excEscaped>>

\* ============================================== runs of one request
\* fr.session:    _get_session_id(request), the key of both registries (None
\*                when the request carries no session hash)
\* fr.registered: the run whose event is _FETCH_CANCEL_EVENTS[session_id] (0: none)
\* fr.run_id:     _FETCH_RUN_IDS[session_id]
\* per run r: event[r] its cancel_event.is_set(), id[r] its run_id (0: not
\* started), pc[r] its position, pend[r] the fetch state of the payload it is
\* about to yield, last[r] the fetch state of its last payload ("none": no
\* payload yet), late[r] (history) it yielded a payload after a newer run had
\* been started.
\* Each of _start_fetch_run, _cancel_current_fetch and _is_latest_fetch_run
\* runs under _FETCH_CANCEL_LOCK and is one step; the statements of
\* fetch_tracks between them are steps of their own.
Runs == 1..MaxRuns

_start_fetch_run_unsignalled(r) ==
    /\ fr.pc[r] = "new"
    /\ fr' = [fr EXCEPT !.registered = r,
                        !.run_id = fr.run_id + 1,
                        !.id[r] = fr.run_id + 1,
                        !.pend[r] = "fetching",
                        !.pc[r] = "stale"]
    /\ UNCHANGED <<emVars, thVars, lastOp, runVars, tx, vm, pl, ab, co, sim>>

\* fetch_tracks 94-95 -> _start_fetch_run 39-49: set the event registered
\* under the session id, register the new one, take the next run id (the
\* function has no test of the session id: None is a key like any other)
_start_fetch_run(r) ==
    /\ fr.pc[r] = "new"
    /\ fr' = [fr EXCEPT !.event = [q \in Runs |-> fr.event[q] \/ q = fr.registered],
                        !.registered = r,
                        !.run_id = fr.run_id + 1,
                        !.id[r] = fr.run_id + 1,
                        !.pend[r] = "fetching",
                        !.pc[r] = "stale"]
    /\ UNCHANGED <<emVars, thVars, lastOp, runVars, tx, vm, pl, ab, co, sim>>

\* _is_latest_fetch_run 52-57: True without a session id, else whether the
\* registered run id is the run's
_is_latest_fetch_run(r) == fr.session = None \/ fr.run_id = fr.id[r]

\* fetch_tracks: `if is_stale(): return` in front of a yield (107, 113, 119,
\* 155, 218, 247, 315) and `if _is_latest_fetch_run(...)` in the handler (329)
is_stale(r) ==
    /\ fr.pc[r] = "stale"
    /\ fr' = [fr EXCEPT !.pc[r] = IF _is_latest_fetch_run(r) THEN "yield" ELSE "done"]
    /\ UNCHANGED <<emVars, thVars, lastOp, runVars, tx, vm, pl, ab, co, sim>>

\* fetch_tracks: the yield after the check; a 'fetching' payload is followed
\* by more work, every other payload by return
yield_payload(r) ==
    /\ fr.pc[r] = "yield"
    /\ fr' = [fr EXCEPT !.last[r] = fr.pend[r],
                        !.late[r] = fr.late[r] \/ fr.run_id # fr.id[r],
                        !.pc[r] = IF fr.pend[r] = "fetching" THEN "poll" ELSE "done"]
    /\ UNCHANGED <<emVars, thVars, lastOp, runVars, tx, vm, pl, ab, co, sim>>

\* fetch_tracks: `if is_cancelled():` (111, 126, 141, 164, 186, 207, 245)
\* selects the cancelled payload; otherwise the run goes on to its next
\* payload: progress or an error of a validation (117-196). The final payload
\* of 317-326 lies behind the call of 230-234, which raises.
is_cancelled(r) ==
    /\ fr.pc[r] = "poll"
    /\ \E state \in {"fetching", "error"} :
          fr' = [fr EXCEPT !.pend[r] = IF fr.event[r] THEN "cancelled" ELSE state,
                          !.pc[r] = "stale"]
    /\ UNCHANGED <<emVars, thVars, lastOp, runVars, tx, vm, pl, ab, co, sim>>

\* fetch_tracks 328-331: a statement of the body raises after a yield and
\* before the next poll (the call of 230-234 follows the yield of 220
\* directly); the handler selects the error payload whatever the event says
fetch_tracks_except(r) ==
    /\ fr.pc[r] = "poll"
    /\ fr' = [fr EXCEPT !.pend[r] = "error", !.pc[r] = "stale"]
    /\ UNCHANGED <<emVars, thVars, lastOp, runVars, tx, vm, pl, ab, co, sim>>

\* prepare_fetch 70-79 -> _cancel_current_fetch 29-36: return at once without
\* a session id, else set the registered event
_cancel_current_fetch ==
    /\ fr.session # None
    /\ fr' = [fr EXCEPT !.event = [q \in Runs |-> fr.event[q] \/ q = fr.registered]]
    /\ UNCHANGED <<emVars, thVars, lastOp, runVars, tx, vm, pl, ab, co, sim>>

\* ======================================================== title text
\* A title is a sequence of tokens; a token is a word or a single character.
Whitespace == {" ", "\n"}
WordTokens == {"full", "album", "video", "by"}

\* clean_youtube_title 279-286: the noise phrases these tokens can spell, in list order
Keywords == << <<"video">>, <<"full", " ", "album">> >>

\* the pieces input titles are made of
Phrases == { <<"full">>, <<"album">>, <<"video">>, <<" ">>, <<"\n">>,
             <<" ", "-", " ">>, <<" ", "|", " ">>, <<":", " ">>, <<" ", "by", " ">>,
             <<"\"">>, <<"[">>, <<"]">>, <<"(">>, <<")">> }

RECURSIVE Flatten(_)
Flatten(ps) == IF ps = <<>> THEN <<>> ELSE Head(ps) \o Flatten(Tail(ps))

Titles == {Flatten(ps) : ps \in UNION {[1..k -> Phrases] : k \in 0..MaxParts}}

\* titles of the shape  words separator words separator words
WordParts == { <<>>, <<"full">>, <<"album">>, <<"by">> }
SeparatorParts == { <<" ", "-", " ">>, <<" ", "|", " ">>, <<":", " ">>, <<" ", "by", " ">>,
                    <<" ", "\"">>, <<"\"">> }
SeparatorTitles ==
    {Flatten(<<a, s1, b, s2, c>>) :
        a \in WordParts, s1 \in SeparatorParts, b \in WordParts,
        s2 \in SeparatorParts, c \in WordParts}

\* the position of the first `close` at or after j that no line break precedes
\* ('.' does not match a line break), 0 when there is none
RECURSIVE CloseAt(_, _, _)
CloseAt(s, j, close) ==
    IF j > Len(s) THEN 0
    ELSE IF s[j] = close THEN j
    ELSE IF s[j] = "\n" THEN 0
    ELSE CloseAt(s, j + 1, close)

\* re.sub(r'\[.*?\]', '', title) and re.sub(r'\(.*?\)', '', title), from position i
RECURSIVE RemoveSpans(_, _, _, _)
RemoveSpans(s, i, open, close) ==
    IF i > Len(s) THEN <<>>
    ELSE LET j == IF s[i] = open THEN CloseAt(s, i + 1, close) ELSE 0 IN
         IF j > 0 THEN RemoveSpans(s, j + 1, open, close)
         ELSE <<s[i]>> \o RemoveSpans(s, i + 1, open, close)

\* \bkeyword\b matches at position i
KeywordAt(s, i, kw) ==
    /\ i + Len(kw) - 1 <= Len(s)
    /\ SubSeq(s, i, i + Len(kw) - 1) = kw
    /\ i = 1 \/ s[i - 1] \notin WordTokens
    /\ i + Len(kw) > Len(s) \/ s[i + Len(kw)] \notin WordTokens

\* re.sub(rf'\b{keyword}\b', '', title, flags=re.IGNORECASE), from position i
RECURSIVE RemoveKeyword(_, _, _)
RemoveKeyword(s, i, kw) ==
    IF i > Len(s) THEN <<>>
    ELSE IF KeywordAt(s, i, kw) THEN RemoveKeyword(s, i + Len(kw), kw)
    ELSE <<s[i]>> \o RemoveKeyword(s, i + 1, kw)

\* for keyword in keywords: ... (keywords k..Len(Keywords))
RECURSIVE RemoveKeywords(_, _)
RemoveKeywords(s, k) ==
    IF k > Len(Keywords) THEN s
    ELSE RemoveKeywords(RemoveKeyword(s, 1, Keywords[k]), k + 1)

\* re.sub(r'[|]', '-', title)
ReplaceSeparators(s) == [i \in DOMAIN s |-> IF s[i] = "|" THEN "-" ELSE s[i]]

\* re.sub(r'\s+', ' ', title), from position i
RECURSIVE CollapseWhitespace(_, _)
CollapseWhitespace(s, i) ==
    IF i > Len(s) THEN <<>>
    ELSE IF s[i] \in Whitespace
    THEN (IF i > 1 /\ s[i - 1] \in Whitespace THEN <<>> ELSE <<" ">>)
         \o CollapseWhitespace(s, i + 1)
    ELSE <<s[i]>> \o CollapseWhitespace(s, i + 1)

\* str.strip()
RECURSIVE Strip(_)
Strip(s) ==
    IF s = <<>> THEN s
    ELSE IF Head(s) \in Whitespace THEN Strip(Tail(s))
    ELSE IF s[Len(s)] \in Whitespace THEN Strip(SubSeq(s, 1, Len(s) - 1))
    ELSE s

\* utils.clean_youtube_title
clean_youtube_title(title) ==
    LET a == RemoveSpans(title, 1, "[", "]")
        b == RemoveSpans(a, 1, "(", ")")
        c == RemoveKeywords(b, 1)
        d == ReplaceSeparators(c)
        e == CollapseWhitespace(d, 1)
    IN Strip(e)

\* the first position where pat occurs in s, 0 when it does not occur
Find(s, pat) ==
    LET I == {i \in 1..(Len(s) - Len(pat) + 1) : SubSeq(s, i, i + Len(pat) - 1) = pat}
    IN IF I = {} THEN 0 ELSE CHOOSE i \in I : \A j \in I : i <= j

\* str.split(sep, 1) at position i, both parts stripped
SplitAt(s, i, n) ==
    [artist |-> Strip(SubSeq(s, 1, i - 1)), title |-> Strip(SubSeq(s, i + n, Len(s)))]

\* re.search(r'^(.+?)\s+["](.+?)["]', cleaned): the positions of the space
\* before the opening quote for which a closing quote follows a non-empty text
QuoteStarts(s) ==
    {i \in 2..Len(s) : /\ s[i] = " "
                       /\ i + 1 <= Len(s) /\ s[i + 1] = "\""
                       /\ \E j \in (i + 3)..Len(s) : s[j] = "\""}

Parsed(found, artist, title) == [found |-> found, artist |-> artist, title |-> title]

parse_artist_title_colon_first(video_title) ==
    LET cleaned == clean_youtube_title(video_title)
        dash == Find(cleaned, <<" ", "-", " ">>)
        colon == Find(cleaned, <<":", " ">>)
    IN IF colon > 0
       THEN LET p == SplitAt(cleaned, colon, 2) IN Parsed(TRUE, p.artist, p.title)
       ELSE IF dash > 0
       THEN LET p == SplitAt(cleaned, dash, 3) IN Parsed(TRUE, p.artist, p.title)
       ELSE Parsed(FALSE, <<>>, cleaned)

\* utils.parse_artist_title; found = FALSE stands for the artist None
parse_artist_title(video_title) ==
    LET cleaned == clean_youtube_title(video_title)
        dash == Find(cleaned, <<" ", "-", " ">>)
        colon == Find(cleaned, <<":", " ">>)
        by == Find(cleaned, <<" ", "by", " ">>)
        quotes == QuoteStarts(cleaned)
    IN IF dash > 0
       THEN LET p == SplitAt(cleaned, dash, 3) IN Parsed(TRUE, p.artist, p.title)
       ELSE IF colon > 0
       THEN LET p == SplitAt(cleaned, colon, 2) IN Parsed(TRUE, p.artist, p.title)
       ELSE IF by > 1 /\ by + 3 <= Len(cleaned)
       THEN LET p == SplitAt(cleaned, by, 3) IN Parsed(TRUE, p.title, p.artist)
       ELSE IF quotes # {}
       THEN LET i == CHOOSE i \in quotes : \A k \in quotes : i <= k
                J == {j \in (i + 3)..Len(cleaned) : cleaned[j] = "\""}
                j == CHOOSE j \in J : \A k \in J : j <= k
            IN Parsed(TRUE, Strip(SubSeq(cleaned, 1, i - 1)),
                      Strip(SubSeq(cleaned, i + 2, j - 1)))
       ELSE Parsed(FALSE, <<>>, cleaned)

\* queries.append(q) if q not in queries
AppendNew(queries, q) == IF q \in Range(queries) THEN queries ELSE Append(queries, q)

build_search_queries_appending(video_title) ==
    LET p == parse_artist_title(video_title)
        cleaned == clean_youtube_title(video_title)
        q1 == IF p.found /\ p.artist # <<>> /\ p.title # <<>>
              THEN << p.artist \o <<" ">> \o p.title,
                      <<"artist:\"">> \o p.artist \o <<"\" track:\"">> \o p.title \o <<"\"">> >>
              ELSE <<>>
    IN Append(Append(q1, cleaned), video_title)

\* utils.build_search_queries
build_search_queries(video_title) ==
    LET p == parse_artist_title(video_title)
        cleaned == clean_youtube_title(video_title)
        q1 == IF p.found /\ p.artist # <<>> /\ p.title # <<>>
              THEN << p.artist \o <<" ">> \o p.title,
                      <<"artist:\"">> \o p.artist \o <<"\" track:\"">> \o p.title \o <<"\"">> >>
              ELSE <<>>
    IN AppendNew(AppendNew(q1, cleaned), video_title)

\* clean_youtube_title applied to a title and again to its own result
clean_call ==
    /\ tx.pc = "title"
    /\ tx' = [pc |-> "cleaned", title |-> tx.title,
              once |-> clean_youtube_title(tx.title),
              twice |-> clean_youtube_title(clean_youtube_title(tx.title))]
    /\ UNCHANGED <<emVars, thVars, lastOp, runVars, vm, pl, ab, co, sim, fr>>

\* build_search_queries applied to a title
build_call ==
    /\ tx.pc = "title"
    /\ tx' = [pc |-> "built", title |-> tx.title,
              cleaned |-> clean_youtube_title(tx.title),
              parsed |-> parse_artist_title(tx.title),
              queries |-> build_search_queries(tx.title)]
    /\ UNCHANGED <<emVars, thVars, lastOp, runVars, vm, pl, ab, co, sim, fr>>


\* ==================================================== create_playlist
\* the match lists a finished fetch can hold: one (video, track, status) per title
MatchEntries(i) ==
    {[video |-> i, track |-> NoTrack, status |-> "not_found"]}
    \cup {[video |-> i, track |-> t, status |-> st] :
             t \in CandIds, st \in {"matched", "low_confidence"}}

MatchLists ==
    UNION {{ms \in [1..n -> UNION {MatchEntries(i) : i \in 1..n}] :
               \A i \in 1..n : ms[i].video = i} : n \in 0..MaxVideos}

\* fetch_tracks 262-290: table rows [checkbox, ..., match id] of the shown matches
TableOf(ms, include_low_confidence) ==
    LET shown == TableRows(ms, include_low_confidence) IN
    [i \in DOMAIN shown |-> [sel |-> TRUE, id |-> shown[i].video]]

\* fetch_tracks 256-290: state_data['matches_by_id'] of the shown matches
StateOf(ms, include_low_confidence) ==
    LET shown == TableRows(ms, include_low_confidence) IN
    [fetched |-> TRUE,
     ids |-> {shown[i].video : i \in DOMAIN shown},
     track |-> [v \in 0..MaxVideos |->
                   IF \E i \in DOMAIN shown : shown[i].video = v
                   THEN ms[v].track ELSE NoTrack]]

\* fetch_reset_payload: tracks_table=[], state_dict={}
NoState == [fetched |-> FALSE, ids |-> {}, track |-> [v \in 0..MaxVideos |-> NoTrack]]

SelectedIds_all(rows) == [i \in DOMAIN rows |-> rows[i].id]

\* create_playlist 166-177: the match ids of the rows whose checkbox is set
SelectedIds(rows) ==
    LET Checked(r) == r.sel
        sel == SelectSeq(rows, Checked)
    IN [i \in DOMAIN sel |-> sel[i].id]

\* create_playlist 200-209: the track ids of the selected matches, unknown ids skipped
TrackIds(selected_indices, st) ==
    LET Known(id) == id \in st.ids
        known == SelectSeq(selected_indices, Known)
    IN [i \in DOMAIN known |-> st.track[known[i]]]

\* ui/flows.create_playlist 131-226: the checks made before the first call on
\* transfer.spotify, "ok" when all of them pass
\*   settingsOk: settings exist; transferOk: initialize_transfer succeeded;
\*   nameOk: len(spotify_name) <= 100
CreateChecks(st, rows, cover, settingsOk, transferOk, nameOk) ==
    IF ~st.fetched THEN "error_state"
    ELSE IF cover = "rejected" THEN "error_cover"
    ELSE IF ~settingsOk THEN "error_settings"
    ELSE IF ~transferOk THEN "error_transfer"
    ELSE IF SelectedIds(rows) = <<>> THEN "error_selection"
    ELSE IF ~nameOk THEN "error_name"
    ELSE "ok"

\* pl.pc: "table" (no call), "create" / "add" / "cover" (the call is in front of
\* line 241 / 263 / 272), "done"; pl.read is the tracks_dataframe argument of
\* the call, pl.track_ids its local track_ids, pl.cover its cover_image

\* tracks_table.change: the user sets or clears the checkbox of a row of the
\* table; the callback runs whether or not a create_playlist call is in progress
toggle_row ==
    /\ \E i \in DOMAIN pl.rows :
          pl' = [pl EXCEPT !.rows[i].sel = ~pl.rows[i].sel]
    /\ UNCHANGED <<emVars, thVars, lastOp, runVars, tx, vm, ab, co, sim, fr>>

\* the table is an interactive Dataframe without a fixed row count
\* (layout.py 395-404): the user adds a row; its Match ID is no key of
\* matches_by_id
\*   b: the checkbox of the new row
add_row ==
    /\ Len(pl.rows) <= MaxVideos
    /\ \E b \in BOOLEAN, id \in (0..MaxVideos) \ pl.st.ids :
          pl' = [pl EXCEPT !.rows = Append(pl.rows, [sel |-> b, id |-> id])]
    /\ UNCHANGED <<emVars, thVars, lastOp, runVars, tx, vm, ab, co, sim, fr>>

\* the create button: ui/flows.create_playlist 119-226 with the table and the
\* state as they are when the button is pressed
create_playlist ==
    /\ pl.pc = "table"
    \* cover_image: None, a path validate_cover_image accepts (a valid image,
    \* or a path that does not exist), or an image it rejects
    /\ \E cover \in {"none", "accepted", "rejected"},
          settingsOk \in BOOLEAN, transferOk \in BOOLEAN, nameOk \in BOOLEAN :
          LET c == CreateChecks(pl.st, pl.rows, cover, settingsOk, transferOk, nameOk)
          IN pl' = [pl EXCEPT !.read = pl.rows,
                              !.cover = cover,
                              !.track_ids = IF c = "ok"
                                            THEN TrackIds(SelectedIds(pl.rows), pl.st)
                                            ELSE <<>>,
                              !.pc = IF c = "ok" THEN "create" ELSE "done",
                              !.result = IF c = "ok" THEN "" ELSE c]
    /\ UNCHANGED <<emVars, thVars, lastOp, runVars, tx, vm, ab, co, sim, fr>>

\* create_playlist 228-256: transfer.spotify.create_playlist(...)
\*   created: the handler returned an id (it returns None on an error)
create_playlist_create ==
    /\ pl.pc = "create"
    /\ \E created \in BOOLEAN :
          pl' = [pl EXCEPT !.calls = Append(pl.calls, [op |-> "create_playlist", ids |-> <<>>]),
                           !.pc = IF created THEN "add" ELSE "done",
                           !.result = IF created THEN "" ELSE "error_create"]
    /\ UNCHANGED <<emVars, thVars, lastOp, runVars, tx, vm, ab, co, sim, fr>>

\* create_playlist 258-268: transfer.spotify.add_tracks_to_playlist(playlist_id,
\* track_ids); the handler returns False on an error and the value is not used
create_playlist_add ==
    /\ pl.pc = "add"
    /\ pl' = [pl EXCEPT !.calls = Append(pl.calls,
                                         [op |-> "add_tracks_to_playlist", ids |-> pl.track_ids]),
                        !.pc = "cover"]
    /\ UNCHANGED <<emVars, thVars, lastOp, runVars, tx, vm, ab, co, sim, fr>>

\* create_playlist 270-302: upload_playlist_cover when a cover image was given
\* (its result only logged), get_playlist_url, the success message
create_playlist_cover ==
    /\ pl.pc = "cover"
    /\ pl' = [pl EXCEPT !.calls = pl.calls
                            \o (IF pl.cover = "none" THEN <<>>
                                ELSE <<[op |-> "upload_playlist_cover", ids |-> <<>>]>>)
                            \o <<[op |-> "get_playlist_url", ids |-> <<>>]>>,
                        !.pc = "done",
                        !.result = "success"]
    /\ UNCHANGED <<emVars, thVars, lastOp, runVars, tx, vm, ab, co, sim, fr>>

\* ============================================= add_tracks_to_playlist
Batch_overlapping(track_ids, i) ==
    SubSeq(track_ids, i,
           IF i + BatchSize <= Len(track_ids) THEN i + BatchSize
           ELSE Len(track_ids))

\* spotify_handler.py 194: the slice track_ids[i:i + batch_size]; here i is 1-based
Batch(track_ids, i) ==
    SubSeq(track_ids, i,
           IF i + BatchSize - 1 <= Len(track_ids) THEN i + BatchSize - 1
           ELSE Len(track_ids))

\* ab.i: the loop variable i of add_tracks_to_playlist, 1-based;
\* ab.calls: the batches given to playlist_add_items so far

\* SpotifyHandler.add_tracks_to_playlist 193-197 and 202-204: one iteration of
\* `for i in range(0, len(track_ids), batch_size)`: the playlist_add_items call
\* of the batch and the sleep; when the call raises, the handler returns False
\*   raises: playlist_add_items raises
add_tracks_to_playlist ==
    /\ ab.pc = "call"
    /\ ab.i <= Len(ab.ids)
    /\ \E raises \in BOOLEAN :
          ab' = [ab EXCEPT !.calls = Append(ab.calls, Batch(ab.ids, ab.i)),
                           !.i = IF raises THEN ab.i ELSE ab.i + BatchSize,
                           !.pc = IF raises THEN "done" ELSE "call",
                           !.ret = FALSE]
    /\ UNCHANGED <<emVars, thVars, lastOp, runVars, tx, vm, pl, co, sim, fr>>

\* SpotifyHandler.add_tracks_to_playlist 199-200: the loop is over, return True
add_tracks_to_playlist_return ==
    /\ ab.pc = "call"
    /\ ab.i > Len(ab.ids)
    /\ ab' = [ab EXCEPT !.pc = "done", !.ret = TRUE]
    /\ UNCHANGED <<emVars, thVars, lastOp, runVars, tx, vm, pl, co, sim, fr>>

\* =================================================== similarity_score
\* the characters the compared strings are made of
Chars == {"a", "b", "c", "A"}
Strings == UNION {[1..k -> Chars] : k \in 0..MaxChars}

\* str.lower()
lower(s) == [i \in DOMAIN s |-> IF s[i] = "A" THEN "a" ELSE s[i]]

\* the length of the longest common run of a[i..ahi] and b[j..bhi] that
\* starts at i in a and at j in b
RECURSIVE RunLength(_, _, _, _, _, _)
RunLength(a, b, i, j, ahi, bhi) ==
    IF i > ahi \/ j > bhi \/ a[i] # b[j] THEN 0
    ELSE 1 + RunLength(a, b, i + 1, j + 1, ahi, bhi)

\* SequenceMatcher.find_longest_match(alo, ahi, blo, bhi) without junk: the
\* longest matching block <<i, j, k>> of a[alo..ahi] and b[blo..bhi]; of the
\* longest blocks the one that starts earliest in a, and of those the one that
\* starts earliest in b
find_longest_match(a, b, alo, ahi, blo, bhi) ==
    LET blocks == {<<i, j, RunLength(a, b, i, j, ahi, bhi)>> :
                      i \in alo..ahi, j \in blo..bhi}
    IN CHOOSE x \in blocks : \A y \in blocks :
          \/ x[3] > y[3]
          \/ x[3] = y[3] /\ x[1] < y[1]
          \/ x[3] = y[3] /\ x[1] = y[1] /\ x[2] <= y[2]

\* SequenceMatcher.get_matching_blocks: the total size of the blocks found by
\* taking the longest block and recursing on the pieces left and right of it
RECURSIVE MatchingSize(_, _, _, _, _, _)
MatchingSize(a, b, alo, ahi, blo, bhi) ==
    IF alo > ahi \/ blo > bhi THEN 0
    ELSE LET m == find_longest_match(a, b, alo, ahi, blo, bhi) IN
         IF m[3] = 0 THEN 0
         ELSE m[3] + MatchingSize(a, b, alo, m[1] - 1, blo, m[2] - 1)
                   + MatchingSize(a, b, m[1] + m[3], ahi, m[2] + m[3], bhi)

\* SequenceMatcher.ratio(): 2.0 * matches / length, 1.0 when both are empty;
\* the fraction is kept as numerator and denominator
Ratio(size, length) ==
    IF length = 0 THEN [num |-> 1, den |-> 1]
    ELSE [num |-> 2 * size, den |-> length]

\* utils.similarity_score: SequenceMatcher(None, str1.lower(), str2.lower()).ratio()
similarity_score(str1, str2) ==
    LET a == lower(str1)
        b == lower(str2)
    IN Ratio(MatchingSize(a, b, 1, Len(a), 1, Len(b)), Len(a) + Len(b))

\* similarity_score called on a pair of strings and on the swapped pair
score_call ==
    /\ sim.pc = "call"
    /\ sim' = [sim EXCEPT !.pc = "done",
                          !.ab = similarity_score(sim.a, sim.b),
                          !.ba = similarity_score(sim.b, sim.a)]
    /\ UNCHANGED <<emVars, thVars, lastOp, runVars, tx, vm, pl, ab, co, fr>>

\* ======================================================= verify_match
\* utils.verify_match called on one (title, track) pair with a threshold:
\* vm.l and vm.s are the lexical and cosine scores of the normalized title
\* against the full label, vm.malformed says that the record has no 'name' or
\* no 'artists' key (format_spotify_track_text, line 411, raises KeyError);
\* the two encode calls (412, 418) go through the manager, which loads the
\* configured model when none is held
verify_call ==
    /\ vm.pc = "call"
    /\ IF vm.malformed
       THEN /\ vm' = [vm EXCEPT !.pc = "raised"]
            /\ UNCHANGED emVars
       ELSE \E loadOk1 \in BOOLEAN, encOk1 \in BOOLEAN,
               loadOk2 \in BOOLEAN, encOk2 \in BOOLEAN :
               LET e1 == EncodeSeq(modelName, model, loadOk1, encOk1)
                   second == e1.res # None
                   e2 == IF second THEN EncodeSeq(modelName, e1.model, loadOk2, encOk2)
                         ELSE [res |-> None, model |-> e1.model,
                               loaded |-> FALSE, failed |-> FALSE]
                   bothVec == e1.res # None /\ e2.res # None
               IN
               /\ second \/ (loadOk2 /\ encOk2)
               /\ AfterEncodes(e2.model, e1.loaded \/ e2.loaded, e1.failed \/ e2.failed)
               /\ vm' = [vm EXCEPT !.pc = "done",
                                   !.bothVec = bothVec,
                                   !.out = verify_match(vm.l, vm.s, bothVec, vm.threshold)]
    /\ UNCHANGED <<thVars, lastOp, runVars, tx, pl, ab, co, sim, fr>>

\* ===================================================== specifications
InitManager ==
    /\ model = None
    /\ hfCache = {}
    /\ thr = [t \in Threads |-> IdleThread]
    /\ loadFailed = FALSE
    /\ sawFail = [t \in Threads |-> FALSE]
    /\ sentinelCall = [t \in Threads |-> FALSE]
    /\ lastOp = StepOp

\* no call of the text, scoring and playlist functions is in progress
NoCall == [pc |-> "none"]

InitFn ==
    /\ co = NoCall
    /\ sim = NoCall
    /\ fr = NoCall
    /\ tx = NoCall
    /\ vm = NoCall
    /\ pl = NoCall
    /\ ab = NoCall

InitRun ==
    /\ fpc = "loop"
    /\ idx = 1
    /\ matches = <<>>
    /\ cur = NoCur
    /\ cancelEvent = FALSE
    /\ stale = FALSE
    /\ cancelSeen = -1
    /\ payloads = <<>>
    /\ excEscaped = FALSE

\* a fetch_tracks run at the entry of its matching loop
Init ==
    /\ InitManager
    /\ modelName \in {None, StringOnly}
    /\ torchCache = {}
    /\ InitRun
    /\ InitFn
    /\ matchThreshold \in ThresholdValues
    /\ session_id \in {"session", None}
    /\ nVideos \in 1..MaxVideos

Next ==
    \/ fetch_loop_top
    \/ fetch_yield_progress
    \/ fetch_search_track_best_match
    \/ fetch_except
    \/ fetch_yield_last
    \/ fetch_return
    \/ prepare_fetch
    \/ start_fetch_run

Spec == Init /\ [][Next]_vars

\* a whole fetch_tracks call, from its first statement, that the framework
\* iterates until the generator returns; every provider call returns
InitLive ==
    /\ InitManager
    /\ modelName \in {None, StringOnly}
    /\ torchCache = {}
    /\ fpc = "start"
    /\ idx = 1
    /\ matches = <<>>
    /\ cur = NoCur
    /\ cancelEvent = FALSE
    /\ stale = FALSE
    /\ cancelSeen = -1
    /\ payloads = <<>>
    /\ excEscaped = FALSE
    /\ InitFn
    /\ matchThreshold \in ThresholdValues
    /\ session_id \in {"session", None}
    /\ nVideos \in 1..MaxVideos

\* the steps of the run itself
RunStep ==
    \/ fetch_start
    \/ fetch_yield
    \/ fetch_is_cancelled
    \/ fetch_check
    \/ fetch_is_stale
    \/ fetch_loop_top
    \/ fetch_yield_progress
    \/ fetch_search_track_best_match
    \/ fetch_except
    \/ fetch_yield_last
    \/ fetch_return

NextLive ==
    \/ fetch_start
    \/ fetch_yield
    \/ fetch_is_cancelled
    \/ fetch_check
    \/ fetch_is_stale
    \/ fetch_loop_top
    \/ fetch_yield_progress
    \/ fetch_search_track_best_match
    \/ fetch_except
    \/ fetch_yield_last
    \/ fetch_return
    \/ prepare_fetch
    \/ start_fetch_run

SpecLive == InitLive /\ [][NextLive]_vars /\ WF_vars(RunStep)

\* PlaylistTransfer.match_tracks called on a list of videos; a cancel request
\* for the session can arrive while it runs
InitMatch ==
    /\ InitManager
    /\ modelName \in {None, StringOnly}
    /\ torchCache = {}
    /\ InitRun
    /\ InitFn
    /\ matchThreshold = DefaultThreshold
    /\ session_id = "session"
    /\ nVideos \in 1..MaxVideos

NextMatch ==
    \/ match_tracks
    \/ match_tracks_search_query
    \/ match_tracks_best_match
    \/ match_tracks_verify
    \/ match_tracks_verify_raises
    \/ match_tracks_return
    \/ prepare_fetch

SpecMatch == InitMatch /\ [][NextMatch]_vars

\* one call of match_by_embeddings with a threshold, on a list of candidates
\* some of which can be malformed
InitEmbed ==
    /\ InitManager
    /\ modelName \in {None, StringOnly}
    /\ torchCache = {}
    /\ fpc = "call"
    /\ idx = 1
    /\ matches = <<>>
    \* the candidate list of the call: no id twice
    /\ \E all \in UNION {[1..k -> CandIds] : k \in 0..Cardinality(CandIds)},
          bad \in SUBSET CandIds :
          /\ \A i \in DOMAIN all, j \in DOMAIN all : i # j => all[i] # all[j]
          /\ bad \subseteq Range(all)
          /\ cur = [NoCur EXCEPT !.all = all, !.bad = bad]
    /\ cancelEvent = FALSE
    /\ stale = FALSE
    /\ cancelSeen = -1
    /\ payloads = <<>>
    /\ excEscaped = FALSE
    /\ InitFn
    /\ matchThreshold \in ThresholdValues
    /\ session_id = None
    /\ nVideos = 1

NextEmbed == match_by_embeddings_call

SpecEmbed == InitEmbed /\ [][NextEmbed]_vars

\* the model manager used by two threads (the UI thread and a background job)
InitEM ==
    /\ InitManager
    /\ modelName = None
    /\ torchCache \in {{}, {DefaultModel}}
    /\ InitRun
    /\ InitFn
    /\ matchThreshold = HandlerThreshold
    /\ session_id = None
    /\ nVideos = 1

NextEM ==
    \/ \E n \in AllNames : set_model_name(n)
    \/ \E t \in Threads, n \in AllNames : delete_model(t, n)
    \/ \E t \in Threads, hfOk \in BOOLEAN : delete_model_hf(t, hfOk)
    \/ \E t \in Threads, torchOk \in BOOLEAN : delete_model_torch(t, torchOk)
    \/ \E t \in Threads, n \in AllNames : download_selected_model_with_progress(t, n)
    \/ \E t \in Threads, ok \in BOOLEAN : download_selected_model_return(t, ok)
    \/ \E t \in Threads : encode_call(t)
    \/ \E t \in Threads : model_check(t)
    \/ \E t \in Threads : model_pick(t)
    \/ \E t \in Threads : model_loaded(t)
    \/ \E t \in Threads : model_load_failed(t)
    \/ \E t \in Threads : model_return(t)
    \/ \E t \in Threads, encOk \in BOOLEAN : encode_continue(t, encOk)

SpecEM == InitEM /\ [][NextEM]_vars

\* no run and no manager activity: the state single function calls start from
InitIdle ==
    /\ InitManager
    /\ modelName = None
    /\ torchCache = {}
    /\ InitRun
    /\ matchThreshold = HandlerThreshold
    /\ session_id = None
    /\ nVideos = 1

\* no collection, no similarity_score call and no session activity
InitOther ==
    /\ co = NoCall
    /\ sim = NoCall
    /\ fr = NoCall

\* the collection loop of search_track_best_match for the queries of one title
InitCollect ==
    /\ InitIdle
    /\ tx = NoCall
    /\ vm = NoCall
    /\ pl = NoCall
    /\ ab = NoCall
    /\ sim = NoCall
    /\ fr = NoCall
    /\ \E n \in 0..MaxQueries :
          co = [pc |-> "collect", nq |-> n, qi |-> 1, all |-> <<>>, log |-> <<>>]

NextCollect ==
    \/ collect_query
    \/ collect_done

SpecCollect == InitCollect /\ [][NextCollect]_vars

\* one pair of strings given to similarity_score
InitScore ==
    /\ InitIdle
    /\ tx = NoCall
    /\ vm = NoCall
    /\ pl = NoCall
    /\ ab = NoCall
    /\ co = NoCall
    /\ fr = NoCall
    /\ \E a \in Strings, b \in Strings :
          sim = [pc |-> "call", a |-> a, b |-> b,
                 ab |-> Ratio(0, 1), ba |-> Ratio(0, 1)]

NextScore == score_call

SpecScore == InitScore /\ [][NextScore]_vars

\* the fetch_tracks calls of requests that carry one session id, or none, for
\* which nothing is registered yet
InitSession ==
    /\ InitIdle
    /\ tx = NoCall
    /\ vm = NoCall
    /\ pl = NoCall
    /\ ab = NoCall
    /\ co = NoCall
    /\ sim = NoCall
    /\ \E sid \in {"session", None} :
          fr = [session |-> sid, registered |-> 0, run_id |-> 0,
                event |-> [r \in Runs |-> FALSE],
                id |-> [r \in Runs |-> 0],
                pc |-> [r \in Runs |-> "new"],
                pend |-> [r \in Runs |-> "none"],
                last |-> [r \in Runs |-> "none"],
                late |-> [r \in Runs |-> FALSE]]

NextSession ==
    \/ \E r \in Runs : _start_fetch_run(r)
    \/ \E r \in Runs : is_stale(r)
    \/ \E r \in Runs : yield_payload(r)
    \/ \E r \in Runs : is_cancelled(r)
    \/ \E r \in Runs : fetch_tracks_except(r)
    \/ _cancel_current_fetch

SpecSession == InitSession /\ [][NextSession]_vars

\* the text functions applied to one title
InitText ==
    /\ InitIdle
    /\ InitOther
    /\ tx \in {[pc |-> "title", title |-> t] : t \in Titles}
    /\ vm = NoCall
    /\ pl = NoCall
    /\ ab = NoCall

NextText ==
    \/ clean_call
    \/ build_call

SpecText == InitText /\ [][NextText]_vars

\* the text functions applied to one title that has two separators
InitParse ==
    /\ InitIdle
    /\ InitOther
    /\ tx \in {[pc |-> "title", title |-> t] : t \in SeparatorTitles}
    /\ vm = NoCall
    /\ pl = NoCall
    /\ ab = NoCall

SpecParse == InitParse /\ [][NextText]_vars

\* the table and the state a fetch left behind (or none); the user then edits
\* the table (checkboxes, added rows) and presses the create button
InitPlaylist ==
    /\ InitIdle
    /\ InitOther
    /\ tx = NoCall
    /\ vm = NoCall
    /\ ab = NoCall
    /\ \E ms \in MatchLists, inc \in BOOLEAN, fetched \in BOOLEAN :
          pl = [pc |-> "table",
                st |-> IF fetched THEN StateOf(ms, inc) ELSE NoState,
                rows |-> IF fetched THEN TableOf(ms, inc) ELSE <<>>,
                read |-> <<>>, track_ids |-> <<>>, cover |-> "none",
                result |-> "", calls |-> <<>>]

NextPlaylist ==
    \/ toggle_row
    \/ add_row
    \/ create_playlist
    \/ create_playlist_create
    \/ create_playlist_add
    \/ create_playlist_cover

SpecPlaylist == InitPlaylist /\ [][NextPlaylist]_vars

\* one call of add_tracks_to_playlist with n distinct ids
InitBatch ==
    /\ InitIdle
    /\ InitOther
    /\ tx = NoCall
    /\ vm = NoCall
    /\ pl = NoCall
    /\ \E n \in 0..MaxTracks :
          ab = [pc |-> "call", ids |-> [i \in 1..n |-> i], i |-> 1,
                calls |-> <<>>, ret |-> FALSE]

NextBatch ==
    \/ add_tracks_to_playlist
    \/ add_tracks_to_playlist_return

SpecBatch == InitBatch /\ [][NextBatch]_vars

\* one call of verify_match; work and contrib are the scores, in the mode of
\* the call, of the parsed work against the candidate name and of the parsed
\* contributor against the candidate contributors
InitVerify ==
    /\ InitManager
    /\ modelName \in {None, StringOnly}
    /\ torchCache = {}
    /\ InitRun
    /\ matchThreshold = HandlerThreshold
    /\ session_id = None
    /\ nVideos = 1
    /\ InitOther
    /\ tx = NoCall
    /\ pl = NoCall
    /\ ab = NoCall
    /\ \E l \in LexValues, sc \in SemValues, w \in LexValues, c \in LexValues,
          m \in BOOLEAN, T \in ThresholdValues :
          vm = [pc |-> "call", l |-> l, s |-> sc, work |-> w, contrib |-> c,
                malformed |-> m, bothVec |-> FALSE, threshold |-> T, out |-> FALSE]

NextVerify == verify_call

SpecVerify == InitVerify /\ [][NextVerify]_vars


\* ============================================================ claims
\* a title has just been finalized: cur holds its data, the last entry of matches its result
Completed == fpc = "loop" /\ idx > 1 /\ Len(matches) = idx - 1
LastMatch == matches[Len(matches)]

\* C1: a finalized title is not_found if and only if its deduplicated
\* candidate set was empty; a surfaced candidate whose score is below the
\* threshold gives low_confidence.
C1_NotFoundIffEmpty ==
    Completed =>
        \* the score verify_match compared with the threshold
        LET SurfacedScore == IF cur.bothVec THEN cur.sem[LastMatch.track]
                                            ELSE cur.lex[LastMatch.track]
        IN
        /\ LastMatch.status = "not_found" <=> cur.all = <<>>
        /\ (cur.all # <<>> /\ SurfacedScore < DefaultThreshold) =>
               LastMatch.status = "low_confidence"

C1_Witness ==
    /\ Completed
    /\ Len(cur.all) = 2
    /\ (IF cur.bothVec THEN cur.sem[LastMatch.track]
                        ELSE cur.lex[LastMatch.track]) < DefaultThreshold
    /\ LastMatch.status = "low_confidence"
    /\ \E i \in DOMAIN matches : matches[i].status = "not_found"

\* C2: when the candidate set of a title is non-empty (all records
\* well-formed), the surfaced candidate is the first one with the highest
\* score, whether or not that score reaches the threshold.
C2_BestSurfaced ==
    (Completed /\ cur.all # <<>> /\ cur.bad = {}) =>
        LastMatch.track = cur.all[ArgMax(cur.all, IF cur.bothVec THEN cur.sem ELSE cur.lex)]

C4_SingleLoad ==
    \A t \in Threads :
        thr[t].pc = "loading" =>
            /\ model # thr[t].name
            /\ \A u \in Threads \ {t} :
                  ~(thr[u].pc = "loading" /\ thr[u].name = thr[t].name)

\* C5: an encode call that begins after a failed load, with no set_model_name
\* since, never attempts another load.
C5_NoReloadAfterFailure ==
    \A t \in Threads : ~(thr[t].pc = "loading" /\ sawFail[t])

C7_DeleteClearsLoaded ==
    (lastOp.op = "delete_model" /\ lastOp.pre # None /\ lastOp.arg = lastOp.pre) =>
        lastOp.cleared

\* C8: an encode call made while string_only is the configured name returns absent.
C8_SentinelReturnsAbsent ==
    (lastOp.op = "encode" /\ sentinelCall[lastOp.arg]) => lastOp.out = None

\* C9: set_model_name changes only the configured name: it starts no load and
\* leaves the in-memory handle, the disk caches and every running call alone.
C9_ConfigureOnlyName ==
    [][lastOp'.op = "set_model_name" =>
          /\ model' = model
          /\ hfCache' = hfCache
          /\ torchCache' = torchCache
          /\ thr' = thr]_vars

C9_Witness ==
    /\ lastOp.op = "set_model_name"
    /\ lastOp.pre # None
    /\ model = lastOp.pre
    /\ modelName # model

\* C10: for a fixed title and fixed candidate scores, a higher threshold never
\* gives a more confident tier: the only change it causes is
\* matched -> low_confidence.
C10_ThresholdMonotone ==
    vm.pc = "done" =>
        \* the tier match_tracks records for the pair when verify_match is
        \* given the threshold T
        LET TierAt(T) ==
                Status(Found(1), verify_match(vm.l, vm.s, vm.bothVec, T))
        IN
        /\ Status(Found(1), vm.out) = TierAt(vm.threshold)
        /\ \A T1 \in ThresholdValues, T2 \in ThresholdValues :
              (T1 < T2 /\ TierAt(T1) # TierAt(T2)) =>
                  (TierAt(T1) = "matched" /\ TierAt(T2) = "low_confidence")

C10_Witness ==
    /\ vm.pc = "done"
    /\ ~vm.out
    /\ \E T \in ThresholdValues :
          /\ T < vm.threshold
          /\ Status(Found(1), verify_match(vm.l, vm.s, vm.bothVec, T)) = "matched"

\* C11: the score that is compared with the threshold for the surfaced
\* candidate lies in [0, 1] (0..10 in tenths), in the embedding mode as in the
\* lexical mode.
C11_ScoreInRange ==
    (Completed /\ LastMatch.track # NoTrack) =>
        (IF cur.bothVec THEN cur.sem[LastMatch.track]
                        ELSE cur.lex[LastMatch.track]) \in 0..10

C15_FailedQuerySkipped ==
    /\ [][(fpc = "search" /\ cur.qi <= cur.nq /\ cur' # cur) =>
             /\ fpc' = "search"
             /\ cur'.qi = cur.qi + 1
             /\ cur'.failedAt = cur.qi => cur'.all = cur.all]_vars
    /\ [][(fpc = "search" /\ fpc' # "search") => cur.qi = cur.nq + 1]_vars

C15_Witness ==
    /\ fpc = "search"
    /\ cur.nq >= 2
    /\ cur.qi = cur.nq + 1
    /\ cur.failedAt = 1
    /\ cur.all # <<>>

\* C16: a candidate record without a name or a contributor list does not raise:
\* no exception escapes the matching of a title that has such a candidate.
C16_MalformedDoesNotRaise == ~(excEscaped /\ cur.bad # {})

\* C12: clean_youtube_title is idempotent: cleaning a cleaned title changes nothing.
C12_CleanIdempotent ==
    tx.pc = "cleaned" => tx.twice = tx.once

\* C13: build_search_queries returns no string twice, and at least one query
\* for a non-empty title.
C13_QueriesUnique ==
    tx.pc = "built" =>
        /\ \A i \in DOMAIN tx.queries, j \in DOMAIN tx.queries :
               i # j => tx.queries[i] # tx.queries[j]
        /\ tx.title # <<>> => Len(tx.queries) >= 1

C13_Witness ==
    /\ tx.pc = "built"
    /\ tx.parsed.found
    /\ tx.cleaned = tx.title
    /\ Len(tx.queries) = 3

\* the tracks of the rows that were checked when create_playlist was called,
\* in table order (a row whose Match ID names no match has no track)
CheckedTracks ==
    LET Checked(r) == r.sel
        sel == SelectSeq(pl.read, Checked)
        Known(r) == r.id \in pl.st.ids
        known == SelectSeq(sel, Known)
    IN [i \in DOMAIN known |-> pl.st.track[known[i].id]]

\* C17: the tracks create_playlist hands to add_tracks_to_playlist are exactly
\* the tracks of the rows checked when it was called, in table order; a
\* successful creation makes one such call, and no track of an unchecked row
\* is in it.
C17_AddsCheckedRows ==
    LET AddCalls ==
            {i \in DOMAIN pl.calls : pl.calls[i].op = "add_tracks_to_playlist"}
    IN
    /\ \A i \in AddCalls : pl.calls[i].ids = CheckedTracks
    /\ (pl.pc = "done" /\ pl.result = "success") => Cardinality(AddCalls) = 1

C17_Witness ==
    /\ pl.pc = "done"
    /\ pl.result = "success"
    /\ Len(pl.read) = 2
    /\ ~pl.read[1].sel
    /\ pl.read[2].sel
    /\ pl.st.track[pl.read[1].id] # pl.st.track[pl.read[2].id]
    /\ Cardinality({i \in DOMAIN pl.calls :
                        pl.calls[i].op = "add_tracks_to_playlist"}) = 1

C19_BatchesOfHundred ==
    (ab.pc = "done" /\ ab.ret) =>
        /\ Flatten(ab.calls) = ab.ids
        /\ \A b \in DOMAIN ab.calls : Len(ab.calls[b]) \in 1..100
        /\ Len(ab.calls) * 100 >= Len(ab.ids)
        /\ (Len(ab.calls) - 1) * 100 < Len(ab.ids) \/ ab.ids = <<>>
        /\ ab.ids = <<>> => ab.calls = <<>>

C19_Witness ==
    /\ ab.pc = "done"
    /\ ab.ret
    /\ Len(ab.ids) > 200
    /\ Len(ab.calls) = 3
    /\ Len(ab.calls[3]) < 100

\* C20: the verdict of verify_match compares with the threshold the maximum of
\* three scores: title against full label, parsed work against candidate name,
\* parsed contributor against candidate contributors.
C20_MaxOfThree ==
    vm.pc = "done" =>
        LET Larger(a, b) == IF a >= b THEN a ELSE b IN
        (vm.out <=> Larger(IF vm.bothVec THEN vm.s ELSE vm.l,
                           Larger(vm.work, vm.contrib)) >= vm.threshold)

\* C26: the status is 'loaded' exactly when a handle is held in memory,
\* 'downloaded-not-loaded' when no handle is held and the configured model is
\* on disk, 'not-downloaded' when neither holds, and 'not-configured' when no
\* model name has been configured.
C26_StatusReflectsState ==
    \* the configured model's artifacts are in one of the two cache directories
    LET OnDisk == modelName \in hfCache \cup torchCache IN
    /\ get_model_status = "loaded" <=> model # None
    /\ (modelName # None /\ model = None /\ OnDisk) =>
           get_model_status = "downloaded-not-loaded"
    /\ (modelName # None /\ model = None /\ ~OnDisk) =>
           get_model_status = "not-downloaded"
    /\ modelName = None => get_model_status = "not-configured"

\* C29: a delete_model call that returns failure leaves the in-memory handle
\* and the configured name as they were before the call: the call has not
\* cleared the handle, and no step of the call assigns the configured name.
C29_FailedDeleteKeepsState ==
    /\ []((lastOp.op = "delete_model" /\ lastOp.out = "fail") => ~lastOp.cleared)
    /\ [][(\E t \in Threads : thr[t].pc \in DeletePcs /\ thr'[t] # thr[t]) =>
              modelName' = modelName]_vars

\* C23: build_search_queries returns exactly the list obtained by inserting,
\* each only if non-empty and not already present, '{contributor} {work}' and
\* the field-scoped query (when a contributor was parsed), the normalized
\* title and the raw title; the result never contains the empty string.
C23_ExactQueries ==
    tx.pc = "built" =>
        LET InsertQuery(queries, q) ==
                IF q = <<>> \/ q \in Range(queries) THEN queries ELSE Append(queries, q)
            p == tx.parsed
            q1 == IF p.found /\ p.artist # <<>> /\ p.title # <<>>
                  THEN InsertQuery(
                         InsertQuery(<<>>, p.artist \o <<" ">> \o p.title),
                         <<"artist:\"">> \o p.artist \o <<"\" track:\"">>
                             \o p.title \o <<"\"">>)
                  ELSE <<>>
        IN /\ tx.queries = InsertQuery(InsertQuery(q1, tx.cleaned), tx.title)
           /\ <<>> \notin Range(tx.queries)

\* the normalized title of the call, and where its separators first occur
DashAt == Find(tx.cleaned, <<" ", "-", " ">>)
ColonAt == Find(tx.cleaned, <<":", " ">>)
ByAt ==
    LET I == {i \in 2..(Len(tx.cleaned) - 3) :
                 SubSeq(tx.cleaned, i, i + 2) = <<" ", "by", " ">>}
    IN IF I = {} THEN 0 ELSE CHOOSE i \in I : \A j \in I : i <= j
QuoteAt ==
    LET I == {i \in 2..(Len(tx.cleaned) - 3) :
                 /\ SubSeq(tx.cleaned, i, i + 1) = <<" ", "\"">>
                 /\ \E j \in (i + 3)..Len(tx.cleaned) : tx.cleaned[j] = "\""}
    IN IF I = {} THEN 0 ELSE CHOOSE i \in I : \A j \in I : i <= j
Before(i) == Strip(SubSeq(tx.cleaned, 1, i - 1))
After(i) == Strip(SubSeq(tx.cleaned, i, Len(tx.cleaned)))

\* C24: parse_artist_title normalizes the title and returns the split of the
\* first pattern that matches, in the order ' - ', ': ', 'by', quoted second
\* segment; a normalized title that contains ' - ' is split at its first ' - '
\* whatever other separators it contains.
C24_FirstPatternWins ==
    tx.pc = "built" =>
        IF DashAt > 0
        THEN tx.parsed = Parsed(TRUE, Before(DashAt), After(DashAt + 3))
        ELSE IF ColonAt > 0
        THEN tx.parsed = Parsed(TRUE, Before(ColonAt), After(ColonAt + 2))
        ELSE IF ByAt > 0
        THEN tx.parsed = Parsed(TRUE, After(ByAt + 3), Before(ByAt))
        ELSE IF QuoteAt > 0
        THEN /\ tx.parsed.found
             /\ tx.parsed.artist = Before(QuoteAt)
             /\ "\"" \notin Range(tx.parsed.title)
        ELSE tx.parsed = Parsed(FALSE, <<>>, tx.cleaned)

C24_Witness ==
    /\ tx.pc = "built"
    /\ ColonAt > 0
    /\ DashAt > ColonAt
    /\ tx.parsed.found
    /\ ":" \in Range(tx.parsed.artist)
    /\ tx.parsed.title # <<>>

\* C21: the candidate set never contains two candidates with the same id, it
\* holds exactly the ids returned so far, and they appear in order of first
\* occurrence (query order, then the provider's ranking within a query).
C21_DedupedInFirstOccurrenceOrder ==
    co.pc # "none" =>
        \* the results of all queries of the call so far, in query order, and
        \* the position at which an id first occurs in them
        LET Returned == Flatten(co.log)
            FirstAt(c) == Find(Returned, <<c>>)
        IN
        /\ \A i \in DOMAIN co.all, j \in DOMAIN co.all :
               i # j => co.all[i] # co.all[j]
        /\ Range(co.all) = Range(Returned)
        /\ \A i \in DOMAIN co.all, j \in DOMAIN co.all :
               i < j => FirstAt(co.all[i]) < FirstAt(co.all[j])

C21_Witness ==
    /\ co.pc = "done"
    /\ Len(co.log) >= 2
    /\ co.log[1] = <<2>>
    /\ co.log[2] = <<1, 2>>
    /\ co.all = <<2, 1>>

\* C22: no query is issued in a state where the candidate set already holds
\* at least total_cap candidates.
C22_NoQueryAfterCap ==
    [][(co.pc = "collect" /\ co'.qi = co.qi + 1) => Len(co.all) < Cardinality(CandIds)]_vars

\* C25: the lexical score is symmetric: similarity_score(a, b) equals
\* similarity_score(b, a) for all strings a and b.
C25_ScoreSymmetric ==
    sim.pc = "done" => sim.ab = sim.ba

\* C27: a run that is no longer the latest run of its session emits no
\* further payload: no run of a session id ever yields after a newer run has
\* been started for the same session id.
C27_StaleRunEmitsNothing ==
    (fr # NoCall /\ fr.session # None) => \A r \in Runs : ~fr.late[r]

\* C28: starting a run sets the cancel event of the previously registered
\* run, so at any time at most one run of the session has an unset event.
C28_OneLiveEvent ==
    /\ [](fr # NoCall => Cardinality({r \in Runs : fr.id[r] # 0 /\ ~fr.event[r]}) <= 1)
    /\ [][\A r \in Runs :
             (fr.pc[r] = "new" /\ fr'.pc[r] # "new" /\ fr.registered # 0) =>
                 fr'.event[fr.registered]]_vars

C28_Witness ==
    /\ fr # NoCall
    /\ \A r \in Runs : fr.pc[r] \notin {"new", "done"}
    /\ Cardinality({r \in Runs : fr.id[r] # 0 /\ ~fr.event[r]}) = 1
    /\ \E r \in Runs : fr.event[r] /\ fr.last[r] = "fetching"

\* C30: every fetch_tracks run terminates, and a run that is still the latest
\* of its session and was never cancelled ends with a payload whose fetch
\* state is 'success' or 'error'.
C30_RunEndsWithOutcome ==
    \* fetch_payloads / constants: the fetch state a payload of the run carries
    \* (the cancelled payload repeats the state the run was called with)
    LET FetchStateOf(kind) ==
            CASE kind = "progress" -> "fetching"
              [] kind = "success" -> "success"
              [] kind = "error" -> "error"
              [] kind = "cancelled" -> "current"
    IN
    /\ <>(fpc = "done")
    /\ []((fpc = "done" /\ ~stale /\ ~cancelEvent) =>
             /\ payloads # <<>>
             /\ FetchStateOf(payloads[Len(payloads)].kind) \in {"success", "error"})

C30_Witness ==
    /\ fpc = "done"
    /\ ~stale
    /\ ~cancelEvent
    /\ excEscaped
    /\ Len(payloads) = 4
    /\ payloads[3].kind = "progress"
    /\ payloads[4].kind = "error"

====
